---------------------------- MODULE Spec2Model ----------------------------
(***************************************************************************)
(* A model of snowflake-mapper (src/src/main.rs): the row aggregator of   *)
(* get_tables_for_database, the retry helper with_retry, the connection   *)
(* handshake (ensure_connected, connect, set_warehouse, set_role) and the  *)
(* per-database loop of main.                                              *)
(*                                                                         *)
(* Rust Strings are tuples of one-character strings, so that the code's    *)
(* character-level functions (eq_ignore_ascii_case, str::parse,            *)
(* Path::with_extension) are computed, not assumed.  An Option<T> is a     *)
(* tuple of length at most one, a Result<T> a record with the flag ok.     *)
(***************************************************************************)
EXTENDS Integers, Sequences, FiniteSets, TLC

VARIABLES
    \* get_tables_for_database, lines 305-342
    database,       \* the caller-supplied database argument
    rows,           \* the rows the column query returned
    pos,            \* the index of the next row of `for row in rows`
    tables,         \* let mut tables
    current_table,  \* let mut current_table: Option<TableInfo>
    aggRet,         \* the value returned, once returned
    \* get_i32_from_row
    i32Row,         \* the row argument
    i32Column,      \* the column argument
    i32Ret,         \* the value returned, once returned
    \* with_retry
    retries,        \* self.args.retries
    attempt,        \* the loop variable of `for attempt in 0..=retries`
    rpc,            \* the position inside with_retry
    last_error,     \* let mut last_error
    delays,         \* the sleeps made so far
    opLog,          \* the outcome of every invocation of operation()
    retryRet,       \* the value returned, once returned
    \* SnowflakeMapper and the warehouse it talks to
    client,         \* self.client
    session,        \* self.session
    created,        \* the sessions the warehouse has created
    stmts,          \* the statements the session has been sent, in order
    lastCall,       \* the trait method called last, with what it saw
    ncalls,         \* the calls made so far
    callRet,        \* the value the last call returned
    config,         \* self.config: the warehouse and the role
    \* main
    mpc,            \* the position inside main
    skip,           \* args.skip_failed_tables
    dbArg,          \* args.databases
    dbList,         \* let databases, once resolved
    tablesRet,      \* what get_tables_for_database returned for the database at idx
    idx,            \* the index of the next database of `for db in databases`
    events,         \* the query and write steps main has completed, in order
    trace,          \* the starts and the completions of those steps, in order
    setup,          \* connect() and the resolution of the list: what they were answered
    files,          \* the paths written under args.output_dir
    exit            \* the process's exit status, once it has ended

aggVars   == <<database, rows, pos, tables, current_table, aggRet>>
decodeVars == <<i32Row, i32Column, i32Ret>>
retryVars == <<retries, attempt, rpc, last_error, delays, opLog, retryRet>>
connVars  == <<client, session, created, stmts, config>>
callVars  == <<lastCall, ncalls, callRet>>
mainVars  == <<mpc, skip, dbArg, dbList, idx, tablesRet, events, trace, setup, files, exit>>
vars      == <<aggVars, decodeVars, retryVars, connVars, callVars, mainVars>>

-----------------------------------------------------------------------------
(* Option and Result *)

None == <<>>
Some(x) == <<x>>
Ok(x) == [ok |-> TRUE, v |-> x]
Err(e) == [ok |-> FALSE, e |-> e]

Last(s) == s[Len(s)]

RECURSIVE SeqsUpTo(_, _)
SeqsUpTo(S, n) ==
    IF n = 0 THEN {<<>>}
    ELSE LET shorter == SeqsUpTo(S, n - 1)
         IN shorter \cup {Append(s, x) : s \in {t \in shorter : Len(t) = n - 1}, x \in S}

-----------------------------------------------------------------------------
(* Characters *)

Uppers == <<"A","B","C","D","E","F","G","H","I","J","K","L","M",
            "N","O","P","Q","R","S","T","U","V","W","X","Y","Z">>
Lowers == <<"a","b","c","d","e","f","g","h","i","j","k","l","m",
            "n","o","p","q","r","s","t","u","v","w","x","y","z">>
Digits == <<"0","1","2","3","4","5","6","7","8","9">>

IndexIn(c, s) == IF \E i \in 1..Len(s) : s[i] = c
                 THEN CHOOSE i \in 1..Len(s) : s[i] = c
                 ELSE 0

\* u8::to_ascii_lowercase: A-Z to a-z, every other character unchanged
ToAsciiLowercase(c) == IF IndexIn(c, Uppers) > 0 THEN Lowers[IndexIn(c, Uppers)] ELSE c

\* str::eq_ignore_ascii_case: same length, and equal character by character
\* once both are ASCII-lowercased
EqIgnoreAsciiCase(a, b) ==
    /\ Len(a) = Len(b)
    /\ \A i \in 1..Len(a) : ToAsciiLowercase(a[i]) = ToAsciiLowercase(b[i])

I32Max == 2147483647
I32Min == -I32Max - 1

RECURSIVE ParseDigits(_, _, _, _)
\* the digit loop of i32::from_str: checked_mul by 10, then checked_add (or
\* checked_sub, after a minus sign) of the digit; any overflow is an error
ParseDigits(s, i, acc, neg) ==
    IF i > Len(s) THEN Some(acc)
    ELSE LET d == IndexIn(s[i], Digits) - 1
         IN IF d < 0 THEN None
            ELSE IF neg
            THEN IF acc < -(I32Max \div 10) THEN None
                 ELSE IF acc * 10 < I32Min + d THEN None
                 ELSE ParseDigits(s, i + 1, acc * 10 - d, neg)
            ELSE IF acc > I32Max \div 10 THEN None
                 ELSE IF acc * 10 > I32Max - d THEN None
                 ELSE ParseDigits(s, i + 1, acc * 10 + d, neg)

\* str::parse::<i32>: an optional sign, then at least one decimal digit, no
\* blanks, no overflow; None stands for the ParseIntError
ParseI32(s) ==
    IF Len(s) = 0 THEN None
    ELSE IF s[1] \in {"+", "-"}
         THEN IF Len(s) = 1 THEN None ELSE ParseDigits(s, 2, 0, s[1] = "-")
         ELSE ParseDigits(s, 1, 0, FALSE)

-----------------------------------------------------------------------------
(* Rows and their decoding.  A row maps a column name to what               *)
(* row.get::<Option<String>>(column) gives: Ok(Some(v)), Ok(None) or Err.   *)

CellSome(v) == [tag |-> "Some", v |-> v]
CellNull == [tag |-> "Null", v |-> <<>>]
CellErr == [tag |-> "Err", v |-> <<>>]

ColumnError(column, message) == [kind |-> "ColumnError", column |-> column, message |-> message]
QueryError(what) == [kind |-> "QueryError", column |-> "", message |-> what]
ContextError(what) == [kind |-> "Context", column |-> "", message |-> what]

GetValueFromRow(row, column) ==
    CASE row[column].tag = "Some" -> Ok(row[column].v)
      [] row[column].tag = "Null" -> Ok(<<>>)
      [] OTHER -> Err(ColumnError(column, "get"))

\* a variant that takes a text that does not parse for an absent value
GetI32FromRowLenient(row, column) ==
    CASE row[column].tag = "Some" /\ Len(row[column].v) > 0 ->
            IF ParseI32(row[column].v) # None
            THEN Ok(ParseI32(row[column].v))
            ELSE Ok(None)
      [] row[column].tag \in {"Some", "Null"} -> Ok(None)
      [] OTHER -> Err(ColumnError(column, "get"))

\* get_i32_from_row, lines 197-213
GetI32FromRow(row, column) ==
    CASE row[column].tag = "Some" /\ Len(row[column].v) > 0 ->
            IF ParseI32(row[column].v) # None
            THEN Ok(ParseI32(row[column].v))
            ELSE Err(ColumnError(column, "parse"))
      [] row[column].tag \in {"Some", "Null"} -> Ok(None)
      [] OTHER -> Err(ColumnError(column, "get"))

YES == <<"Y", "E", "S">>

\* the ColumnInfo { ... } expression of lines 327-334: the fields are decoded
\* in the order written and the first failure is returned
DecodeColumn(row) ==
    LET name == GetValueFromRow(row, "column_name")
        dtype == GetValueFromRow(row, "data_type")
        nullable == GetValueFromRow(row, "is_nullable")
        cml == GetI32FromRow(row, "character_maximum_length")
        prec == GetI32FromRow(row, "numeric_precision")
        scale == GetI32FromRow(row, "numeric_scale")
    IN CASE ~name.ok -> name
         [] ~dtype.ok -> dtype
         [] ~nullable.ok -> nullable
         [] ~cml.ok -> cml
         [] ~prec.ok -> prec
         [] ~scale.ok -> scale
         [] OTHER -> Ok([name |-> name.v,
                         data_type |-> dtype.v,
                         is_nullable |-> EqIgnoreAsciiCase(nullable.v, YES),
                         character_maximum_length |-> cml.v,
                         numeric_precision |-> prec.v,
                         numeric_scale |-> scale.v])

-----------------------------------------------------------------------------
(* The aggregation loop of get_tables_for_database *)

\* a variant that reads the database name off the row's schema
NewTableInfoFromRow(db, schema_name, table_name) ==
    [database_name |-> schema_name, schema_name |-> schema_name,
     table_name |-> table_name, columns |-> <<>>]

NewTableInfo(db, schema_name, table_name) ==
    [database_name |-> db, schema_name |-> schema_name,
     table_name |-> table_name, columns |-> <<>>]

\* a variant with && for ||: a new table only when schema and table both change
KeyChangedBoth(cur, schema_name, table_name) ==
    IF cur = None THEN TRUE
    ELSE cur[1].schema_name # schema_name /\ cur[1].table_name # table_name

\* a variant that compares the table name only
KeyChangedTableOnly(cur, schema_name, table_name) ==
    IF cur = None THEN TRUE
    ELSE cur[1].table_name # table_name

\* current_table.as_ref().map_or(true, |t| t.schema_name != .. || t.table_name != ..)
KeyChanged(cur, schema_name, table_name) ==
    IF cur = None THEN TRUE
    ELSE cur[1].schema_name # schema_name \/ cur[1].table_name # table_name

\* a variant that pushes current_table.take().unwrap_or_default()
PushCurrentOrDefault(tbls, cur) ==
    Append(tbls, IF cur # None THEN cur[1]
                 ELSE [database_name |-> <<>>, schema_name |-> <<>>,
                       table_name |-> <<>>, columns |-> <<>>])

\* if let Some(table) = current_table.take() { tables.push(table) }
PushCurrent(tbls, cur) == IF cur # None THEN Append(tbls, cur[1]) ELSE tbls

\* a variant that stops at a column that does not decode and returns the
\* tables it has so far
AggRowPartial(st, row, db) ==
    LET schema_name == GetValueFromRow(row, "table_schema")
        table_name == GetValueFromRow(row, "table_name")
    IN IF ~schema_name.ok THEN [st EXCEPT !.ret = Some(schema_name)]
       ELSE IF ~table_name.ok THEN [st EXCEPT !.ret = Some(table_name)]
       ELSE
         LET changed == KeyChanged(st.current_table, schema_name.v, table_name.v)
             tbls == IF changed THEN PushCurrent(st.tables, st.current_table) ELSE st.tables
             cur == IF changed THEN NewTableInfo(db, schema_name.v, table_name.v)
                    ELSE st.current_table[1]
             col == DecodeColumn(row)
         IN IF ~col.ok
            THEN [tables |-> tbls, current_table |-> Some(cur),
                  ret |-> Some(Ok(PushCurrent(tbls, Some(cur))))]
            ELSE [tables |-> tbls,
                  current_table |-> Some([cur EXCEPT !.columns = Append(@, col.v)]),
                  ret |-> None]

\* One iteration of `for row in rows` (lines 309-335) on the locals
\* st = [tables, current_table]; ret is None when the loop goes on and
\* Some(Err(e)) when a `?` returns.
AggRow(st, row, db) ==
    LET schema_name == GetValueFromRow(row, "table_schema")
        table_name == GetValueFromRow(row, "table_name")
    IN IF ~schema_name.ok THEN [st EXCEPT !.ret = Some(schema_name)]
       ELSE IF ~table_name.ok THEN [st EXCEPT !.ret = Some(table_name)]
       ELSE
         LET changed == KeyChanged(st.current_table, schema_name.v, table_name.v)
             tbls == IF changed THEN PushCurrent(st.tables, st.current_table) ELSE st.tables
             cur == IF changed THEN NewTableInfo(db, schema_name.v, table_name.v)
                    ELSE st.current_table[1]
             col == DecodeColumn(row)
         IN IF ~col.ok
            THEN [tables |-> tbls, current_table |-> Some(cur), ret |-> Some(col)]
            ELSE [tables |-> tbls,
                  current_table |-> Some([cur EXCEPT !.columns = Append(@, col.v)]),
                  ret |-> None]

\* a variant without the push of lines 338-340: the last table is lost
AggEndNoPush(st) ==
    [tables |-> st.tables, current_table |-> None, ret |-> Some(Ok(st.tables))]

\* lines 338-342, after the loop
AggEnd(st) ==
    [tables |-> PushCurrent(st.tables, st.current_table),
     current_table |-> None,
     ret |-> Some(Ok(PushCurrent(st.tables, st.current_table)))]

RECURSIVE AggLoop(_, _, _, _)
AggLoop(st, rs, i, db) ==
    IF st.ret # None THEN st
    ELSE IF i > Len(rs) THEN AggEnd(st)
    ELSE AggLoop(AggRow(st, rs[i], db), rs, i + 1, db)

\* lines 305-342 as a function of the rows: the Result returned
Aggregate(db, rs) ==
    AggLoop([tables |-> <<>>, current_table |-> None, ret |-> None], rs, 1, db).ret[1]

-----------------------------------------------------------------------------
(* The mapper and its session.  m = [client, session, created, stmts] is    *)
(* the mapper with the warehouse's side of it: the sessions created and the  *)
(* statements received.  An operation gives [m |-> the mapper after it,      *)
(* res |-> its Result].  e holds the answers of the warehouse to the         *)
(* operation's requests: clientOk, sessionOk, and one query result           *)
(* [ok, rows] per statement (wh, useWh, useRole, dbs, cols).                 *)

Unit == "()"
QFail == [ok |-> FALSE, rows |-> <<>>]
QRows(rs) == [ok |-> TRUE, rows |-> rs]
Stmt(kind, arg) == [kind |-> kind, arg |-> arg]

\* the hardcoded fallback of line 247
COMPUTE_WH == <<"C","O","M","P","U","T","E","_","W","H">>

\* a variant without the guard of line 158: a session per call
EnsureConnectedAlways(m, e) ==
    IF ~e.clientOk
    THEN [m |-> m, res |-> Err(ContextError("Failed to create Snowflake client"))]
    ELSE IF ~e.sessionOk
    THEN [m |-> m, res |-> Err(ContextError("Failed to create Snowflake session"))]
    ELSE [m |-> [m EXCEPT !.client = Some("client"),
                          !.session = Some(m.created + 1),
                          !.created = m.created + 1],
          res |-> Ok(Unit)]

\* a variant that stores the client before it creates the session
EnsureConnectedClientFirst(m, e) ==
    IF m.client # None THEN [m |-> m, res |-> Ok(Unit)]
    ELSE IF ~e.clientOk
    THEN [m |-> m, res |-> Err(ContextError("Failed to create Snowflake client"))]
    ELSE IF ~e.sessionOk
    THEN [m |-> [m EXCEPT !.client = Some("client")],
          res |-> Err(ContextError("Failed to create Snowflake session"))]
    ELSE [m |-> [m EXCEPT !.client = Some("client"),
                          !.session = Some(m.created + 1),
                          !.created = m.created + 1],
          res |-> Ok(Unit)]

\* ensure_connected, lines 157-180
EnsureConnected(m, e) ==
    IF m.client # None THEN [m |-> m, res |-> Ok(Unit)]
    ELSE IF ~e.clientOk
    THEN [m |-> m, res |-> Err(ContextError("Failed to create Snowflake client"))]
    ELSE IF ~e.sessionOk
    THEN [m |-> m, res |-> Err(ContextError("Failed to create Snowflake session"))]
    ELSE [m |-> [m EXCEPT !.client = Some("client"),
                          !.session = Some(m.created + 1),
                          !.created = m.created + 1],
          res |-> Ok(Unit)]

\* self.get_session()?.query(stmt).await.map_err(QueryError(what)): without a
\* session nothing is sent; with one the statement reaches the warehouse and
\* q is its answer
SessionQuery(m, stmt, q, what) ==
    IF m.session = None
    THEN [m |-> m, res |-> Err(ContextError("Not connected to Snowflake"))]
    ELSE [m |-> [m EXCEPT !.stmts = Append(@, stmt)],
          res |-> IF q.ok THEN Ok(q.rows) ELSE Err(QueryError(what))]

\* WarehouseInfo { name, size, state, type_ }, lines 354-359
DecodeWarehouse(row) ==
    LET name == GetValueFromRow(row, "name")
        size == GetValueFromRow(row, "size")
        state == GetValueFromRow(row, "state")
        type == GetValueFromRow(row, "type")
    IN CASE ~name.ok -> name
         [] ~size.ok -> size
         [] ~state.ok -> state
         [] ~type.ok -> type
         [] OTHER -> Ok([name |-> name.v, size |-> size.v,
                         state |-> state.v, type_ |-> type.v])

\* DatabaseInfo { name, created_on, owner }, lines 281-285
DecodeDatabase(row) ==
    LET name == GetValueFromRow(row, "name")
        created_on == GetValueFromRow(row, "created_on")
        owner == GetValueFromRow(row, "owner")
    IN CASE ~name.ok -> name
         [] ~created_on.ok -> created_on
         [] ~owner.ok -> owner
         [] OTHER -> Ok([name |-> name.v, created_on |-> created_on.v,
                         owner |-> owner.v])

RECURSIVE DecodeAll(_, _, _, _)
\* for row in rows { out.push(decode(row)?) }, lines 280-286 and 353-360;
\* which is "warehouse" or "database"
DecodeAll(which, rs, i, out) ==
    IF i > Len(rs) THEN Ok(out)
    ELSE LET d == IF which = "warehouse" THEN DecodeWarehouse(rs[i])
                  ELSE DecodeDatabase(rs[i])
         IN IF ~d.ok THEN d ELSE DecodeAll(which, rs, i + 1, Append(out, d.v))

\* list_warehouses, lines 345-363
ListWarehouses(m, e) ==
    LET q == SessionQuery(m, Stmt("SHOW WAREHOUSES", <<>>), e.wh, "Failed to list warehouses")
    IN IF ~q.res.ok THEN q
       ELSE [m |-> q.m, res |-> DecodeAll("warehouse", q.res.v, 1, <<>>)]

\* a variant that compares the names exactly
EqExact(a, b) == a = b

\* w.eq_ignore_ascii_case(warehouse), line 243
WarehouseNameMatches(a, b) == EqIgnoreAsciiCase(a, b)

\* lines 243-248
TargetWarehouse(warehouse_names, warehouse) ==
    IF \E i \in 1..Len(warehouse_names) : WarehouseNameMatches(warehouse_names[i], warehouse)
    THEN warehouse
    ELSE COMPUTE_WH

\* set_warehouse, lines 233-258
SetWarehouse(m, warehouse, e) ==
    LET l == ListWarehouses(m, e)
    IN IF ~l.res.ok THEN l
       ELSE LET warehouse_names == [i \in 1..Len(l.res.v) |-> l.res.v[i].name]
                target == TargetWarehouse(warehouse_names, warehouse)
                q == SessionQuery(l.m, Stmt("USE WAREHOUSE", target), e.useWh,
                                  "Failed to set warehouse")
            IN [m |-> q.m, res |-> IF q.res.ok THEN Ok(Unit) ELSE q.res]

\* set_role, lines 260-270
SetRole(m, role, e) ==
    LET q == SessionQuery(m, Stmt("USE ROLE", role), e.useRole, "Failed to set role")
    IN [m |-> q.m, res |-> IF q.res.ok THEN Ok(Unit) ELSE q.res]

\* a variant that goes on when USE ROLE fails
ConnectIgnoringRole(m, cfg, e) ==
    LET c == EnsureConnected(m, e)
    IN IF ~c.res.ok THEN c
       ELSE LET w == SetWarehouse(c.m, cfg.warehouse, e)
            IN IF ~w.res.ok THEN w
               ELSE IF cfg.role # None
               THEN [m |-> SetRole(w.m, cfg.role[1], e).m, res |-> Ok(Unit)]
               ELSE [m |-> w.m, res |-> Ok(Unit)]

\* connect, lines 218-231
Connect(m, cfg, e) ==
    LET c == EnsureConnected(m, e)
    IN IF ~c.res.ok THEN c
       ELSE LET w == SetWarehouse(c.m, cfg.warehouse, e)
            IN IF ~w.res.ok THEN w
               ELSE IF cfg.role # None THEN SetRole(w.m, cfg.role[1], e)
               ELSE [m |-> w.m, res |-> Ok(Unit)]

\* get_all_databases, lines 272-288
GetAllDatabases(m, e) ==
    LET c == EnsureConnected(m, e)
    IN IF ~c.res.ok THEN c
       ELSE LET q == SessionQuery(c.m, Stmt("SHOW DATABASES", <<>>), e.dbs,
                                  "Failed to list databases")
            IN IF ~q.res.ok THEN q
               ELSE [m |-> q.m, res |-> DecodeAll("database", q.res.v, 1, <<>>)]

\* a variant that sends the column query again after a failure, when
\* args.retries allows a retry
GetTablesForDatabaseRetried(m, db, e) ==
    LET c == EnsureConnected(m, e)
    IN IF ~c.res.ok THEN c
       ELSE LET q1 == SessionQuery(c.m, Stmt("SELECT COLUMNS", db), e.cols,
                                   "Failed to get tables for database")
                q == IF ~q1.res.ok /\ retries > 0
                     THEN SessionQuery(q1.m, Stmt("SELECT COLUMNS", db), e.cols,
                                       "Failed to get tables for database")
                     ELSE q1
            IN IF ~q.res.ok THEN q
               ELSE [m |-> q.m, res |-> Aggregate(db, q.res.v)]

\* get_tables_for_database, lines 290-343
GetTablesForDatabase(m, db, e) ==
    LET c == EnsureConnected(m, e)
    IN IF ~c.res.ok THEN c
       ELSE LET q == SessionQuery(c.m, Stmt("SELECT COLUMNS", db), e.cols,
                                  "Failed to get tables for database")
            IN IF ~q.res.ok THEN q
               ELSE [m |-> q.m, res |-> Aggregate(db, q.res.v)]

-----------------------------------------------------------------------------
(* The values a part of the program has while a specification does not run it *)

AggIdle ==
    /\ database = <<>> /\ rows = <<>> /\ pos = 1
    /\ tables = <<>> /\ current_table = None /\ aggRet = None

DecodeIdle ==
    /\ i32Row = <<>> /\ i32Column = "" /\ i32Ret = None

\* with_retry is not running
RetryNotCalled ==
    /\ attempt = 0 /\ rpc = "idle" /\ last_error = None
    /\ delays = 0 /\ opLog = <<>> /\ retryRet = None

RetryIdle == retries = 0 /\ RetryNotCalled

\* SnowflakeMapper::new, lines 124-131: no client, no session
ConnNew ==
    /\ client = None /\ session = None /\ created = 0 /\ stmts = <<>>

ConnIdle == ConnNew /\ config = [warehouse |-> <<>>, role |-> None]

CallIdle ==
    /\ lastCall = None /\ ncalls = 0 /\ callRet = None

MainIdle ==
    /\ mpc = "idle" /\ skip = FALSE /\ dbArg = None /\ dbList = None /\ idx = 1
    /\ tablesRet = None /\ events = <<>> /\ trace = <<>> /\ setup = <<>>
    /\ files = <<>> /\ exit = None

-----------------------------------------------------------------------------
(* SpecAgg: get_tables_for_database from the point where the column query  *)
(* has returned its rows (line 305) to its return.                          *)

MaxRows == 3

S1 == <<"S", "1">>
S2 == <<"S", "2">>
T1 == <<"T", "1">>
T2 == <<"T", "2">>
DbA == <<"D", "B", "A">>
DbB == <<"D", "B", "B">>

MkRow(schema, table, name, nullable, cml, prec, scale) ==
    [table_schema |-> schema, table_name |-> table, column_name |-> name,
     data_type |-> CellSome(<<"N">>), is_nullable |-> nullable,
     character_maximum_length |-> cml, numeric_precision |-> prec,
     numeric_scale |-> scale]

\* the (table_schema, table_name) cells of the rows that decode
KeyCells == {<<CellSome(S1), CellSome(T1)>>, <<CellSome(S1), CellSome(T2)>>,
             <<CellSome(S2), CellSome(T2)>>}

\* the rows a column query may return: every key with two columns that decode,
\* a row whose schema is null (it decodes to the empty string), a row whose
\* numeric_precision does not parse and a row whose table_name cannot be read
AggRowSet ==
    UNION {{MkRow(k[1], k[2], CellSome(<<"a">>), CellSome(<<"y", "e", "s">>),
                  CellSome(<<"1", "0">>), CellNull, CellSome(<<>>)),
            MkRow(k[1], k[2], CellSome(<<"b">>), CellSome(<<"N", "O">>),
                  CellNull, CellSome(<<"-", "3">>), CellSome(<<"0">>))} : k \in KeyCells}
    \cup {MkRow(CellNull, CellSome(T1), CellSome(<<"a">>), CellNull,
                CellNull, CellNull, CellNull),
          MkRow(CellSome(S1), CellSome(T1), CellSome(<<"c">>), CellNull,
                CellNull, CellSome(<<"1", "x">>), CellNull),
          MkRow(CellSome(S1), CellErr, CellSome(<<"a">>), CellNull,
                CellNull, CellNull, CellNull)}

AggInit ==
    /\ database \in {DbA, DbB}
    /\ rows \in SeqsUpTo(AggRowSet, MaxRows)
    /\ pos = 1
    /\ tables = <<>>
    /\ current_table = None
    /\ aggRet = None
    /\ DecodeIdle /\ RetryIdle /\ ConnIdle /\ CallIdle /\ MainIdle

AggLocals == [tables |-> tables, current_table |-> current_table, ret |-> None]

\* one iteration of the loop of line 308
GetTablesRow ==
    /\ aggRet = None
    /\ pos <= Len(rows)
    /\ LET st == AggRow(AggLocals, rows[pos], database)
       IN /\ tables' = st.tables
          /\ current_table' = st.current_table
          /\ aggRet' = st.ret
    /\ pos' = pos + 1
    /\ UNCHANGED <<database, rows, decodeVars, retryVars, connVars, callVars, mainVars>>

\* the rows are exhausted: lines 338-342
GetTablesEnd ==
    /\ aggRet = None
    /\ pos > Len(rows)
    /\ LET st == AggEnd(AggLocals)
       IN /\ tables' = st.tables
          /\ current_table' = st.current_table
          /\ aggRet' = st.ret
    /\ UNCHANGED <<database, rows, pos, decodeVars, retryVars, connVars, callVars, mainVars>>

AggNext == GetTablesRow \/ GetTablesEnd

SpecAgg == AggInit /\ [][AggNext]_vars

-----------------------------------------------------------------------------
(* SpecDecode: one call of get_i32_from_row on a row whose cell at the     *)
(* column is null, unreadable, or any text.                                  *)

MaxText == 2

NumericColumns == {"character_maximum_length", "numeric_precision", "numeric_scale"}

DecodeAlphabet == {"0", "1", "9", "-", "+", "x", " "}

\* texts at and around the ends of the i32 range, and one with leading zeros
LongTexts ==
    {<<"2","1","4","7","4","8","3","6","4","7">>,
     <<"2","1","4","7","4","8","3","6","4","8">>,
     <<"-","2","1","4","7","4","8","3","6","4","8">>,
     <<"-","2","1","4","7","4","8","3","6","4","9">>,
     <<"9","9","9","9","9","9","9","9","9","9","9">>,
     <<"0","0","0","0","0","0","0","0","0","0","0","1","2">>}

DecodeCells ==
    {CellNull, CellErr}
       \cup {CellSome(t) : t \in SeqsUpTo(DecodeAlphabet, MaxText) \cup LongTexts}

DecodeInit ==
    /\ i32Column \in NumericColumns
    /\ \E c \in DecodeCells :
          i32Row = [f \in NumericColumns |-> IF f = i32Column THEN c ELSE CellNull]
    /\ i32Ret = None
    /\ AggIdle /\ RetryIdle /\ ConnIdle /\ CallIdle /\ MainIdle

\* self.get_i32_from_row(&row, column), lines 330-332
GetI32 ==
    /\ i32Ret = None
    /\ i32Ret' = Some(GetI32FromRow(i32Row, i32Column))
    /\ UNCHANGED <<i32Row, i32Column, aggVars, retryVars, connVars, callVars, mainVars>>

DecodeNext == GetI32

SpecDecode == DecodeInit /\ [][DecodeNext]_vars

-----------------------------------------------------------------------------
(* SpecRetry: with_retry, lines 134-155.  operation is an Fn() -> Result<T>: *)
(* every invocation may succeed or fail, with any error.                     *)

MaxRetries == 3

OpErrors == {"E1", "E2"}
OpOutcomes == {Ok("r")} \cup {Err(e) : e \in OpErrors}

\* a variant that sleeps before every attempt, the first included
ShouldSleepAlways(a) == a >= 0

\* if attempt > 0, line 140
ShouldSleep(a) == a > 0

\* a variant that keeps the first error: last_error.get_or_insert(e)
RecordFirstError(last, e) == IF last = None THEN Some(e) ELSE last

\* last_error = Some(e), line 148
RecordError(last, e) == Some(e)

RetryInit ==
    /\ retries \in 0..MaxRetries
    /\ attempt = 0
    /\ rpc = "loop"
    /\ last_error = None
    /\ delays = 0
    /\ opLog = <<>>
    /\ retryRet = None
    /\ AggIdle /\ DecodeIdle /\ ConnIdle /\ CallIdle /\ MainIdle

\* the head of an iteration of `for attempt in 0..=retries`, lines 139-143
RetryEnterBody ==
    /\ rpc = "loop"
    /\ attempt <= retries
    /\ delays' = IF ShouldSleep(attempt) THEN delays + 1 ELSE delays
    /\ rpc' = "call"
    /\ UNCHANGED <<retries, attempt, last_error, opLog, retryRet>>
    /\ UNCHANGED <<aggVars, decodeVars, connVars, callVars, mainVars>>

\* match operation(), lines 145-151
RetryCall ==
    /\ rpc = "call"
    /\ \E o \in OpOutcomes :
         /\ opLog' = Append(opLog, o)
         /\ IF o.ok
            THEN /\ retryRet' = Some(o)
                 /\ rpc' = "done"
                 /\ UNCHANGED <<attempt, last_error>>
            ELSE /\ last_error' = RecordError(last_error, o.e)
                 /\ attempt' = attempt + 1
                 /\ rpc' = "loop"
                 /\ UNCHANGED retryRet
    /\ UNCHANGED <<retries, delays>>
    /\ UNCHANGED <<aggVars, decodeVars, connVars, callVars, mainVars>>

\* the range is exhausted: Err(last_error.unwrap()), line 154; unwrap panics
\* on None
RetryExhausted ==
    /\ rpc = "loop"
    /\ attempt > retries
    /\ IF last_error = None
       THEN rpc' = "panic" /\ UNCHANGED retryRet
       ELSE rpc' = "done" /\ retryRet' = Some(Err(last_error[1]))
    /\ UNCHANGED <<retries, attempt, last_error, delays, opLog>>
    /\ UNCHANGED <<aggVars, decodeVars, connVars, callVars, mainVars>>

RetryNext == RetryEnterBody \/ RetryCall \/ RetryExhausted

SpecRetry == RetryInit /\ [][RetryNext]_vars

-----------------------------------------------------------------------------
(* SpecConn: the methods of SnowflakeOperations called in any order on a    *)
(* new mapper, the warehouse answering each request in any way.              *)

MaxCalls == 3

WH_lower == <<"w", "h">>
WH_upper == <<"W", "H">>
ROLE == <<"S", "A", "L", "E", "S">>

WhRow(name) == [name |-> name, size |-> CellSome(<<"X", "S">>),
                state |-> CellNull, type |-> CellSome(<<>>)]
DbRow(name) == [name |-> name, created_on |-> CellNull, owner |-> CellSome(<<"o">>)]

\* what SHOW WAREHOUSES may answer: a failure, no warehouse, the warehouse WH,
\* the warehouses w and X, a row whose name cannot be read
WhResults ==
    {QFail, QRows(<<>>), QRows(<<WhRow(CellSome(WH_upper))>>),
     QRows(<<WhRow(CellSome(<<"w">>)), WhRow(CellSome(<<"X">>))>>),
     QRows(<<WhRow(CellErr)>>)}
UseResults == {QFail, QRows(<<>>)}
DbResults == {QFail, QRows(<<DbRow(CellSome(DbA)), DbRow(CellSome(DbB))>>),
              QRows(<<DbRow(CellErr)>>)}
ColResults ==
    {QFail, QRows(<<>>),
     QRows(<<MkRow(CellSome(S1), CellSome(T1), CellSome(<<"a">>), CellSome(YES),
                   CellSome(<<"1", "0">>), CellNull, CellNull)>>),
     QRows(<<MkRow(CellSome(S1), CellSome(T1), CellSome(<<"c">>), CellNull,
                   CellNull, CellSome(<<"1", "x">>), CellNull)>>)}

\* the answers no request of the operation asks for
NoAnswers == [clientOk |-> TRUE, sessionOk |-> TRUE, wh |-> QFail, useWh |-> QFail,
              useRole |-> QFail, dbs |-> QFail, cols |-> QFail]

Mapper == [client |-> client, session |-> session, created |-> created, stmts |-> stmts]

\* a call of a trait method: the mapper becomes r.m, the caller gets r.res
Call(op, arg, e, r) ==
    /\ ncalls < MaxCalls
    /\ client' = r.m.client
    /\ session' = r.m.session
    /\ created' = r.m.created
    /\ stmts' = r.m.stmts
    /\ lastCall' = Some([op |-> op, arg |-> arg, e |-> e, pre |-> Mapper])
    /\ callRet' = Some(r.res)
    /\ ncalls' = ncalls + 1
    /\ UNCHANGED <<config, aggVars, decodeVars, retryVars, mainVars>>

ConnInit ==
    /\ ConnNew
    /\ config \in [warehouse : {WH_lower}, role : {None, Some(ROLE)}]
    /\ CallIdle
    /\ AggIdle /\ DecodeIdle /\ RetryIdle /\ MainIdle

\* the answers to the creation of a client and a session matter only to a
\* mapper that has no client yet
CreationAnswers == IF client = None THEN BOOLEAN ELSE {TRUE}

CallConnect ==
    \E co, so \in CreationAnswers, w \in WhResults, uw, ur \in UseResults :
        \E e \in {[NoAnswers EXCEPT !.clientOk = co, !.sessionOk = so, !.wh = w,
                                    !.useWh = uw, !.useRole = ur]} :
            \E r \in {Connect(Mapper, config, e)} : Call("connect", <<>>, e, r)

CallSetWarehouse ==
    \E warehouse \in {WH_lower, <<"x">>}, w \in WhResults, uw \in UseResults :
        \E e \in {[NoAnswers EXCEPT !.wh = w, !.useWh = uw]} :
            \E r \in {SetWarehouse(Mapper, warehouse, e)} :
                Call("set_warehouse", warehouse, e, r)

CallSetRole ==
    \E ur \in UseResults :
        \E e \in {[NoAnswers EXCEPT !.useRole = ur]} :
            \E r \in {SetRole(Mapper, ROLE, e)} : Call("set_role", ROLE, e, r)

CallGetAllDatabases ==
    \E co, so \in CreationAnswers, d \in DbResults :
        \E e \in {[NoAnswers EXCEPT !.clientOk = co, !.sessionOk = so, !.dbs = d]} :
            \E r \in {GetAllDatabases(Mapper, e)} : Call("get_all_databases", <<>>, e, r)

CallGetTablesForDatabase ==
    \E co, so \in CreationAnswers, c \in ColResults :
        \E e \in {[NoAnswers EXCEPT !.clientOk = co, !.sessionOk = so, !.cols = c]} :
            \E r \in {GetTablesForDatabase(Mapper, DbA, e)} :
                Call("get_tables_for_database", DbA, e, r)

CallListWarehouses ==
    \E w \in WhResults :
        \E e \in {[NoAnswers EXCEPT !.wh = w]} :
            \E r \in {ListWarehouses(Mapper, e)} : Call("list_warehouses", <<>>, e, r)

ConnNext ==
    \/ CallConnect
    \/ CallSetWarehouse
    \/ CallSetRole
    \/ CallGetAllDatabases
    \/ CallGetTablesForDatabase
    \/ CallListWarehouses

SpecConn == ConnInit /\ [][ConnNext]_vars

-----------------------------------------------------------------------------
(* Paths and the output file.  A path is a String; the database names of the *)
(* model hold no separator.                                                   *)

LastIndexOf(str, ch) ==
    IF \E i \in 1..Len(str) : str[i] = ch
    THEN CHOOSE i \in 1..Len(str) : str[i] = ch /\ \A j \in (i + 1)..Len(str) : str[j] # ch
    ELSE 0

\* Path::join: an absolute argument replaces the path, any other is appended
\* after a separator
PathJoin(dir, name) ==
    IF Len(name) > 0 /\ name[1] = "/" THEN name ELSE dir \o <<"/">> \o name

\* Path::with_extension: the file name (what follows the last separator) loses
\* what follows its last dot, unless that dot is its first character, and
\* gains "." and the extension; a path without a file name is left as it is
WithExtension(path, ext) ==
    LET slash == LastIndexOf(path, "/")
        file_name == SubSeq(path, slash + 1, Len(path))
        dot == LastIndexOf(file_name, ".")
        file_stem == IF dot <= 1 THEN file_name ELSE SubSeq(file_name, 1, dot - 1)
    IN IF file_name = <<>> \/ file_name = <<".", ".">> THEN path
       ELSE SubSeq(path, 1, slash) \o file_stem \o <<".">> \o ext

JSON == <<"j", "s", "o", "n">>

\* args.output_dir.join(&db.name).with_extension("json"), lines 429-431
OutputPath(output_dir, name) == WithExtension(PathJoin(output_dir, name), JSON)

OutputError(path) ==
    [kind |-> "OutputError", column |-> "", message |-> "Failed to write to", path |-> path]
IoError(what) == [kind |-> "io::Error", column |-> "", message |-> what]

\* serde_json::to_string_pretty of the tables; it cannot fail on these types
ToStringPretty(data) == [json |-> data]

\* write_formatted_output, lines 366-374, on the files fs (path -> content);
\* w is what the file system does: "ok", "mkdir" (create_dir_all fails) or
\* "write" (std::fs::write fails)
WriteFormattedOutput(fs, path, data, w) ==
    CASE w = "mkdir" -> [fs |-> fs, res |-> Err(IoError("create_dir_all"))]
      [] w = "write" -> [fs |-> fs, res |-> Err(OutputError(path))]
      [] OTHER -> [fs |-> [q \in (DOMAIN fs) \cup {path} |->
                              IF q = path THEN ToStringPretty(data) ELSE fs[q]],
                   res |-> Ok(Unit)]

-----------------------------------------------------------------------------
(* SpecMain: main from client.connect() (line 402) to the end of the process *)

MaxDbs == 3

OutputDir == <<"o", "u", "t">>
DbPlain == <<"a">>
DbDotted == <<"a", ".", "b">>
DbNames == {DbPlain, DbDotted}
WriteOutcomes == {"ok", "mkdir", "write"}

\* what the column query of a database may answer to main: a failure, a row
\* that decodes, a row that does not
MainColResults ==
    {QFail,
     QRows(<<MkRow(CellSome(S1), CellSome(T1), CellSome(<<"a">>), CellSome(YES),
                   CellSome(<<"1", "0">>), CellNull, CellNull)>>),
     QRows(<<MkRow(CellSome(S1), CellSome(T1), CellSome(<<"a">>), CellSome(YES),
                   CellSome(<<"1", "0">>), CellNull, CellNull),
             MkRow(CellSome(S1), CellSome(T2), CellSome(<<"b">>), CellSome(YES),
                   CellNull, CellNull, CellNull),
             MkRow(CellSome(S1), CellSome(T2), CellSome(<<"c">>), CellNull,
                   CellNull, CellSome(<<"1", "x">>), CellNull)>>)}
MainDbResults ==
    {QFail, QRows(<<DbRow(CellSome(DbPlain)), DbRow(CellSome(DbDotted))>>),
     QRows(<<DbRow(CellErr)>>)}

\* a variant that never aborts
AbortNever(skip_failed_tables) == FALSE

\* a variant that always aborts
AbortAlways(skip_failed_tables) == TRUE

\* if !args.skip_failed_tables { return Err(e) }, lines 435 and 443
AbortOnFailure(skip_failed_tables) == ~skip_failed_tables

\* main returns Err(e): the process ends with a non-zero status
ExitErr(e) == Some([code |-> 1, error |-> Some(e)])
\* main returns Ok(()), line 453
ExitOk == Some([code |-> 0, error |-> None])

\* #[arg(short, long, default_value = "3")] retries, lines 52-53
DefaultRetries == 3

\* a variant that starts a step and goes on without awaiting it
NotAwaited(step) == step

\* .await, lines 427 and 433: main is suspended until the step completes
Awaited(step) == IF step = "query" THEN "querying" ELSE "writing"

Started(step) == [at |-> "start", step |-> step, idx |-> idx]
Completed(step, ok) == [at |-> "end", step |-> step, idx |-> idx, ok |-> ok]

SetMapper(m) ==
    /\ client' = m.client
    /\ session' = m.session
    /\ created' = m.created
    /\ stmts' = m.stmts
    /\ UNCHANGED config

CurrentDb == dbList[1][idx]

MainInit ==
    /\ mpc = "connect"
    /\ skip \in BOOLEAN
    /\ dbArg \in {None} \cup {Some(l) : l \in SeqsUpTo(DbNames, MaxDbs)}
    /\ dbList = None
    /\ idx = 1
    /\ tablesRet = None
    /\ events = <<>>
    /\ trace = <<>>
    /\ setup = <<>>
    /\ files = <<>>
    /\ exit = None
    /\ ConnNew
    /\ config = [warehouse |-> WH_lower, role |-> Some(ROLE)]
    /\ CallIdle /\ AggIdle /\ DecodeIdle
    /\ retries \in {0, DefaultRetries} /\ RetryNotCalled

\* what the warehouse may answer to the requests of connect(), up to the
\* first request that fails; a request that is not made has no answer
HandshakeAnswers ==
    {e \in {[NoAnswers EXCEPT !.clientOk = co, !.sessionOk = so, !.wh = w,
                              !.useWh = uw, !.useRole = ur] :
                co, so \in BOOLEAN, w \in WhResults, uw, ur \in UseResults} :
        /\ ~e.clientOk => e.sessionOk = NoAnswers.sessionOk
        /\ (~e.clientOk \/ ~e.sessionOk) => e.wh = NoAnswers.wh
        /\ ~ListWarehouses([client |-> Some("client"), session |-> Some(1),
                            created |-> 1, stmts |-> <<>>], e).res.ok
              => e.useWh = NoAnswers.useWh
        /\ ~e.useWh.ok => e.useRole = NoAnswers.useRole}

\* client.connect().await?, line 402
MainConnect ==
    /\ mpc = "connect"
    /\ \E e \in HandshakeAnswers :
         \E r \in {Connect(Mapper, config, e)} :
              /\ SetMapper(r.m)
              /\ setup' = Append(setup, [step |-> "connect", answer |-> Some(e),
                                         ok |-> r.res.ok])
              /\ IF r.res.ok
                 THEN mpc' = "resolve" /\ UNCHANGED exit
                 ELSE mpc' = "done" /\ exit' = ExitErr(r.res.e)
    /\ UNCHANGED <<skip, dbArg, dbList, idx, tablesRet, events, trace, files>>
    /\ UNCHANGED <<aggVars, decodeVars, retryVars, callVars>>

\* Some(dbs): a placeholder DatabaseInfo per name, lines 406-410
MainResolveArgs ==
    /\ mpc = "resolve"
    /\ dbArg # None
    /\ dbList' = Some([i \in 1..Len(dbArg[1]) |->
                          [name |-> dbArg[1][i], created_on |-> <<>>, owner |-> <<>>]])
    /\ mpc' = "query"
    /\ setup' = Append(setup, [step |-> "resolve", answer |-> None, ok |-> TRUE])
    /\ UNCHANGED <<skip, dbArg, idx, tablesRet, events, trace, files, exit>>
    /\ UNCHANGED <<connVars, aggVars, decodeVars, retryVars, callVars>>

\* None: client.get_all_databases().await?, line 411
MainResolveCatalog ==
    /\ mpc = "resolve"
    /\ dbArg = None
    /\ \E d \in MainDbResults :
         \E r \in {GetAllDatabases(Mapper, [NoAnswers EXCEPT !.dbs = d])} :
            /\ SetMapper(r.m)
            /\ setup' = Append(setup, [step |-> "resolve", answer |-> Some(d),
                                       ok |-> r.res.ok])
            /\ IF r.res.ok
               THEN mpc' = "query" /\ dbList' = Some(r.res.v) /\ UNCHANGED exit
               ELSE mpc' = "done" /\ exit' = ExitErr(r.res.e) /\ UNCHANGED dbList
    /\ UNCHANGED <<skip, dbArg, idx, tablesRet, events, trace, files>>
    /\ UNCHANGED <<aggVars, decodeVars, retryVars, callVars>>

\* the loop takes the next database and calls
\* client.get_tables_for_database(&db.name), lines 424-427
MainQueryStart ==
    /\ mpc = "query"
    /\ idx <= Len(dbList[1])
    /\ mpc' = Awaited("query")
    /\ trace' = Append(trace, Started("query"))
    /\ UNCHANGED <<skip, dbArg, dbList, idx, tablesRet, events, setup, files, exit>>
    /\ UNCHANGED <<connVars, aggVars, decodeVars, retryVars, callVars>>

\* get_tables_for_database(...).await completes, and the Err arm, lines 427
\* and 441-446
MainQuery ==
    /\ mpc = "querying"
    /\ \E c \in MainColResults :
         \E r \in {GetTablesForDatabase(Mapper, CurrentDb.name, [NoAnswers EXCEPT !.cols = c])} :
            /\ SetMapper(r.m)
            /\ events' = Append(events, [step |-> "query", idx |-> idx, db |-> CurrentDb.name,
                                         ok |-> r.res.ok,
                                         error |-> IF r.res.ok THEN None ELSE Some(r.res.e),
                                         answer |-> c])
            /\ trace' = Append(trace, Completed("query", r.res.ok))
            /\ IF r.res.ok
               THEN /\ tablesRet' = Some(r.res.v)
                    /\ mpc' = "write"
                    /\ UNCHANGED <<idx, exit>>
               ELSE IF AbortOnFailure(skip)
               THEN /\ mpc' = "done"
                    /\ exit' = ExitErr(r.res.e)
                    /\ UNCHANGED <<idx, tablesRet>>
               ELSE /\ idx' = idx + 1
                    /\ mpc' = "query"
                    /\ UNCHANGED <<tablesRet, exit>>
    /\ UNCHANGED <<skip, dbArg, dbList, setup, files>>
    /\ UNCHANGED <<aggVars, decodeVars, retryVars, callVars>>

\* the Ok(tables) arm calls write_formatted_output, lines 428-433
MainWriteStart ==
    /\ mpc = "write"
    /\ mpc' = Awaited("write")
    /\ trace' = Append(trace, Started("write"))
    /\ UNCHANGED <<skip, dbArg, dbList, idx, tablesRet, events, setup, files, exit>>
    /\ UNCHANGED <<connVars, aggVars, decodeVars, retryVars, callVars>>

\* write_formatted_output(...).await completes, lines 433-440
MainWrite ==
    /\ mpc = "writing"
    /\ \E w \in WriteOutcomes :
         \E r \in {WriteFormattedOutput(files, OutputPath(OutputDir, CurrentDb.name),
                                        tablesRet[1], w)} :
            /\ files' = r.fs
            /\ events' = Append(events, [step |-> "write", idx |-> idx, db |-> CurrentDb.name,
                                         ok |-> r.res.ok,
                                         error |-> IF r.res.ok THEN None ELSE Some(r.res.e),
                                         answer |-> w])
            /\ trace' = Append(trace, Completed("write", r.res.ok))
            /\ IF ~r.res.ok /\ AbortOnFailure(skip)
               THEN /\ mpc' = "done"
                    /\ exit' = ExitErr(r.res.e)
                    /\ UNCHANGED <<idx, tablesRet>>
               ELSE /\ idx' = idx + 1
                    /\ mpc' = "query"
                    /\ tablesRet' = None
                    /\ UNCHANGED exit
    /\ UNCHANGED <<skip, dbArg, dbList, setup>>
    /\ UNCHANGED <<connVars, aggVars, decodeVars, retryVars, callVars>>

\* the loop is over: Ok(()), lines 452-453
MainFinish ==
    /\ mpc = "query"
    /\ idx > Len(dbList[1])
    /\ mpc' = "done"
    /\ exit' = ExitOk
    /\ UNCHANGED <<skip, dbArg, dbList, idx, tablesRet, events, trace, setup, files>>
    /\ UNCHANGED <<connVars, aggVars, decodeVars, retryVars, callVars>>

MainNext ==
    \/ MainConnect
    \/ MainResolveArgs
    \/ MainResolveCatalog
    \/ MainQueryStart
    \/ MainQuery
    \/ MainWriteStart
    \/ MainWrite
    \/ MainFinish

SpecMain == MainInit /\ [][MainNext]_vars

-----------------------------------------------------------------------------
(* Properties of the aggregator *)

AggReturned == aggRet # None
AggReturnedOk == aggRet # None /\ aggRet[1].ok
AggTables == aggRet[1].v

\* the key a row decodes to: a null cell is the empty string
CellString(cell) == IF cell.tag = "Some" THEN cell.v ELSE <<>>
RowKey(row) == <<CellString(row.table_schema), CellString(row.table_name)>>
InputKeys == [i \in 1..Len(rows) |-> RowKey(rows[i])]
TableKey(t) == <<t.schema_name, t.table_name>>

\* all the occurrences of a key are adjacent
Contiguous(ks) ==
    \A i, k \in 1..Len(ks) : (i < k /\ ks[i] = ks[k]) => \A j \in i..k : ks[j] = ks[i]

RECURSIVE FirstAppearance(_, _)
\* the distinct elements of ks from position i on, in the order of their first
\* occurrence in ks
FirstAppearance(ks, i) ==
    IF i > Len(ks) THEN <<>>
    ELSE IF \E j \in 1..(i - 1) : ks[j] = ks[i] THEN FirstAppearance(ks, i + 1)
    ELSE <<ks[i]>> \o FirstAppearance(ks, i + 1)

RECURSIVE SumColumns(_, _)
SumColumns(ts, i) == IF i > Len(ts) THEN 0 ELSE Len(ts[i].columns) + SumColumns(ts, i + 1)

\* the decoded column of a row, computed from the cells alone
ExpectedI32(cell) ==
    IF cell.tag = "Some" /\ cell.v # <<>> THEN Some(ParseI32(cell.v)[1]) ELSE None
ExpectedColumn(row) ==
    [name |-> CellString(row.column_name),
     data_type |-> CellString(row.data_type),
     is_nullable |-> CellString(row.is_nullable) \in {<<"Y","E","S">>, <<"y","e","s">>},
     character_maximum_length |-> ExpectedI32(row.character_maximum_length),
     numeric_precision |-> ExpectedI32(row.numeric_precision),
     numeric_scale |-> ExpectedI32(row.numeric_scale)]

\* C1: when the rows of every (schema_name, table_name) key are contiguous, a
\* successful get_tables_for_database returns one TableInfo per distinct key,
\* in the order in which the keys first appear in the input.
C1_OneTablePerKeyInFirstAppearanceOrder ==
    (AggReturnedOk /\ Contiguous(InputKeys)) =>
        /\ Len(AggTables) = Cardinality({InputKeys[i] : i \in 1..Len(rows)})
        /\ \A i \in 1..Len(AggTables) :
              TableKey(AggTables[i]) = FirstAppearance(InputKeys, 1)[i]

\* the spec's example: three contiguous rows, two keys, two tables
C1_Witness ==
    /\ AggReturnedOk /\ Contiguous(InputKeys)
    /\ Len(rows) = 3 /\ rows[1].table_schema = CellSome(S1)
    /\ InputKeys[1] = InputKeys[2] /\ InputKeys[3] = <<S2, T2>>
    /\ Len(AggTables) = 2

\* C2: on success the column counts of the returned tables add up to the
\* number of input rows.
C2_ColumnCountsSumToRowCount ==
    AggReturnedOk => SumColumns(AggTables, 1) = Len(rows)

C2_Witness ==
    AggReturnedOk /\ Len(rows) = 3 /\ Len(AggTables) = 2 /\ Len(AggTables[2].columns) = 2

\* C3: every returned TableInfo has columns, carries the database argument,
\* and its columns are the decoded rows of one stretch of the input, in input
\* order, every row of the stretch having the table's own key.
C3_TablesNonEmptyKeyedAndOrdered ==
    AggReturnedOk =>
        \A k \in 1..Len(AggTables) :
            LET t == AggTables[k]
                off == SumColumns(SubSeq(AggTables, 1, k - 1), 1)
            IN /\ Len(t.columns) > 0
               /\ t.database_name = database
               /\ off + Len(t.columns) <= Len(rows)
               /\ \A j \in 1..Len(t.columns) :
                     /\ RowKey(rows[off + j]) = TableKey(t)
                     /\ t.columns[j] = ExpectedColumn(rows[off + j])

C3_Witness ==
    /\ AggReturnedOk /\ database = DbB /\ Len(AggTables) = 2
    /\ Len(AggTables[1].columns) = 2
    /\ AggTables[1].columns[1].name # AggTables[1].columns[2].name
    /\ AggTables[2].database_name = DbB

\* C4: a column query that returns no rows gives Ok with no tables.
C4_NoRowsGivesOkEmpty ==
    (AggReturned /\ rows = <<>>) => (aggRet[1].ok /\ aggRet[1].v = <<>>)

C4_Witness ==
    AggReturned /\ rows = <<>> /\ aggRet[1].ok /\ pos = 1

-----------------------------------------------------------------------------
(* Properties of with_retry *)

RetryRunning == rpc # "idle"
RetryReturned == retryRet # None

\* C7: with_retry invokes the operation at most retries + 1 times, returns at
\* the first success with its result, and sleeps once before every attempt but
\* the first: the delays are the attempts made minus one.
C7_AtMostNPlusOneAttemptsAndOneDelayBetween ==
    RetryRunning =>
        /\ Len(opLog) <= retries + 1
        /\ \A i \in 1..(Len(opLog) - 1) : ~opLog[i].ok
        /\ (Len(opLog) > 0 /\ Last(opLog).ok) =>
              (RetryReturned /\ retryRet[1].ok /\ retryRet[1].v = Last(opLog).v)
        /\ (RetryReturned /\ retryRet[1].ok) => Last(opLog).ok
        /\ rpc = "call" => delays = Len(opLog)
        /\ (rpc # "call" /\ Len(opLog) > 0) => delays = Len(opLog) - 1
        /\ Len(opLog) = 0 => delays = 0

\* the spec's example: maxRetries = 2, fail, fail, succeed: Ok with 2 delays
C7_Witness ==
    /\ retries = 2 /\ RetryReturned /\ retryRet[1].ok
    /\ Len(opLog) = 3 /\ ~opLog[1].ok /\ ~opLog[2].ok /\ delays = 2

\* C8: when every attempt fails, with_retry makes exactly retries + 1 attempts
\* and returns the error of the last one; last_error.unwrap() never panics.
C8_AllFailReturnsLastErrorAfterNPlusOne ==
    /\ rpc # "panic"
    /\ (RetryReturned /\ ~retryRet[1].ok) =>
          /\ Len(opLog) = retries + 1
          /\ \A i \in 1..Len(opLog) : ~opLog[i].ok
          /\ retryRet[1].e = Last(opLog).e
    /\ (rpc = "loop" /\ attempt > retries) => last_error # None

\* three failed attempts with maxRetries = 2, the last error not the first
C8_Witness ==
    /\ retries = 2 /\ RetryReturned /\ ~retryRet[1].ok
    /\ Len(opLog) = 3 /\ opLog[1].e = "E1" /\ opLog[3].e = "E2"
    /\ retryRet[1].e = "E2"

-----------------------------------------------------------------------------
(* Properties of the connection *)

Called(op) == lastCall # None /\ lastCall[1].op = op

\* the statements the last call has sent
NewStmts == SubSeq(stmts, Len(lastCall[1].pre.stmts) + 1, Len(stmts))

\* a string with its ASCII upper-case letters replaced by the lower-case ones
FoldCase(str) ==
    [i \in 1..Len(str) |->
        IF \E k \in 1..26 : Uppers[k] = str[i]
        THEN Lowers[CHOOSE k \in 1..26 : Uppers[k] = str[i]]
        ELSE str[i]]

RowReadable(row) == \A col \in DOMAIN row : row[col].tag # "Err"

\* the last call had a session, SHOW WAREHOUSES was answered and every row of
\* the answer could be read
ListFetched(c) ==
    /\ c.pre.session # None
    /\ c.e.wh.ok
    /\ \A i \in 1..Len(c.e.wh.rows) : RowReadable(c.e.wh.rows[i])

Listed(c, requested) ==
    \E i \in 1..Len(c.e.wh.rows) :
        FoldCase(CellString(c.e.wh.rows[i].name)) = FoldCase(requested)

\* C9: set_warehouse(requested) first sends SHOW WAREHOUSES and then exactly
\* one USE WAREHOUSE: of the requested name when a listed name equals it up to
\* ASCII case, of COMPUTE_WH otherwise; it fails only when the list cannot be
\* fetched or the USE WAREHOUSE statement itself fails.
C9_SetWarehouseActivatesRequestedOrFallback ==
    Called("set_warehouse") =>
        LET c == lastCall[1]
            new == NewStmts
        IN /\ c.pre.session = None => (new = <<>> /\ ~callRet[1].ok)
           /\ c.pre.session # None => (Len(new) >= 1 /\ new[1] = Stmt("SHOW WAREHOUSES", <<>>))
           /\ (c.pre.session # None /\ ~ListFetched(c)) => (Len(new) = 1 /\ ~callRet[1].ok)
           /\ ListFetched(c) =>
                 /\ Len(new) = 2
                 /\ new[2] = Stmt("USE WAREHOUSE",
                                  IF Listed(c, c.arg) THEN c.arg ELSE COMPUTE_WH)
                 /\ callRet[1].ok <=> c.e.useWh.ok

\* wh is requested, WH is listed: wh is activated
C9_Witness ==
    /\ Called("set_warehouse") /\ ListFetched(lastCall[1])
    /\ lastCall[1].arg = WH_lower
    /\ Len(lastCall[1].e.wh.rows) = 1
    /\ CellString(lastCall[1].e.wh.rows[1].name) = WH_upper
    /\ Last(stmts) = Stmt("USE WAREHOUSE", WH_lower)
    /\ callRet[1].ok

\* x is requested, only WH is listed: COMPUTE_WH is activated and the call succeeds
C9_WitnessFallback ==
    /\ Called("set_warehouse") /\ ListFetched(lastCall[1])
    /\ lastCall[1].arg = <<"x">>
    /\ Len(lastCall[1].e.wh.rows) = 1
    /\ Last(stmts) = Stmt("USE WAREHOUSE", COMPUTE_WH)
    /\ callRet[1].ok

ConnectCalledWhileConnected == Called("connect") /\ lastCall[1].pre.client # None

\* C10 as claimed: at most one session is ever created, and a connect() made
\* while connected creates no session and sends no statement.
C10_SecondConnectIsNoOp ==
    /\ created <= 1
    /\ ConnectCalledWhileConnected =>
          (created = lastCall[1].pre.created /\ stmts = lastCall[1].pre.stmts)

\* C10 as amended: at most one session is ever created, and a connect() made
\* while connected creates no session and leaves client and session as they
\* were, but runs the warehouse and role handshake again: SHOW WAREHOUSES,
\* then USE WAREHOUSE, then USE ROLE when a role is configured, stopping at the
\* first failure.
C10_OneSessionAndSecondConnectRepeatsHandshake ==
    /\ created <= 1
    /\ (session # None) <=> (created = 1)
    /\ ConnectCalledWhileConnected =>
          LET c == lastCall[1]
              new == NewStmts
              nrole == IF config.role # None THEN 1 ELSE 0
          IN /\ created = c.pre.created
             /\ client = c.pre.client
             /\ session = c.pre.session
             /\ Len(new) >= 1 /\ Len(new) <= 2 + nrole
             /\ new[1] = Stmt("SHOW WAREHOUSES", <<>>)
             /\ Len(new) >= 2 => new[2].kind = "USE WAREHOUSE"
             /\ Len(new) >= 3 => new[3] = Stmt("USE ROLE", config.role[1])
             /\ callRet[1].ok => Len(new) = 2 + nrole

\* a second connect() on a connected mapper that succeeds and has sent the
\* three statements again
C10_Witness ==
    /\ ConnectCalledWhileConnected /\ callRet[1].ok
    /\ created = 1 /\ Len(NewStmts) = 3 /\ Len(stmts) >= 6

\* the last call was of a method that begins with ensure_connected, on a
\* mapper without a client
CalledUnconnected ==
    /\ lastCall # None
    /\ lastCall[1].op \in {"connect", "get_all_databases", "get_tables_for_database"}
    /\ lastCall[1].pre.client = None

\* C11: the client is set exactly when the session is; a call during which
\* the creation of the client or of the session fails returns an error and
\* leaves both unset and no session created, and a call on a mapper without a
\* client whose creations succeed creates a session.
C11_FailedCreationLeavesBothUnset ==
    /\ (client # None) <=> (session # None)
    /\ CalledUnconnected =>
          IF lastCall[1].e.clientOk /\ lastCall[1].e.sessionOk
          THEN /\ client # None /\ session # None
               /\ created = lastCall[1].pre.created + 1
          ELSE /\ client = None /\ session = None
               /\ created = lastCall[1].pre.created
               /\ stmts = lastCall[1].pre.stmts
               /\ ~callRet[1].ok /\ callRet[1].e.kind = "Context"

\* a connect() whose client is created and whose session is not, after an
\* earlier call
C11_Witness ==
    /\ Called("connect") /\ lastCall[1].pre.client = None /\ ncalls >= 2
    /\ lastCall[1].e.clientOk /\ ~lastCall[1].e.sessionOk
    /\ client = None /\ session = None /\ ~callRet[1].ok

\* a connect() that creates the session after an earlier connect() failed to
C11_WitnessRetry ==
    /\ Called("connect") /\ lastCall[1].pre.client = None /\ ncalls = 2
    /\ lastCall[1].pre.stmts = <<>>
    /\ created = 1 /\ session # None /\ callRet[1].ok

-----------------------------------------------------------------------------
(* Properties of main *)

IsQuery(ev) == ev.step = "query"
IsWrite(ev) == ev.step = "write"
QueryEvents == SelectSeq(events, IsQuery)
PathOf(ev) == OutputPath(OutputDir, ev.db)
MainEnded == mpc = "done"

NamedFile(output_dir, name) == output_dir \o <<"/">> \o name \o <<".">> \o JSON

\* C12: every write goes to the output directory joined with the full
\* database name followed by ".json", and the writes of two distinct database
\* names of a run go to distinct paths.
C12_EachDatabaseHasItsOwnFile ==
    /\ \A i \in 1..Len(events) :
          IsWrite(events[i]) => PathOf(events[i]) = NamedFile(OutputDir, events[i].db)
    /\ \A i, j \in 1..Len(events) :
          (IsWrite(events[i]) /\ IsWrite(events[j]) /\ events[i].db # events[j].db)
             => PathOf(events[i]) # PathOf(events[j])

\* C13: every failure of write_formatted_output, in the creation of the parent
\* directories as in the write of the file, is an OutputError that carries the
\* path.
C13_EveryWriteFailureIsOutputError ==
    \A i \in 1..Len(events) :
       (IsWrite(events[i]) /\ ~events[i].ok) =>
          /\ events[i].error[1].kind = "OutputError"
          /\ "path" \in DOMAIN events[i].error[1]
          /\ events[i].error[1].path = PathOf(events[i])

-----------------------------------------------------------------------------
(* Decimal text read as mathematics reads it, for the statements about the *)
(* decoding of the numeric fields                                          *)

DecimalDigits == <<"0", "1", "2", "3", "4", "5", "6", "7", "8", "9">>
DigitOf(c) == CHOOSE d \in 0..9 : DecimalDigits[d + 1] = c
IsDigit(c) == \E d \in 0..9 : DecimalDigits[d + 1] = c
Pow10(k) == [j \in 0..9 |-> CASE j = 0 -> 1 [] j = 1 -> 10 [] j = 2 -> 100 [] j = 3 -> 1000
                              [] j = 4 -> 10000 [] j = 5 -> 100000 [] j = 6 -> 1000000
                              [] j = 7 -> 10000000 [] j = 8 -> 100000000
                              [] OTHER -> 1000000000][k]

\* the text without its sign, and without its leading zeros
Unsigned(s) == IF s # <<>> /\ s[1] \in {"+", "-"} THEN Tail(s) ELSE s
Significant(d) ==
    IF \A i \in 1..Len(d) : d[i] = "0" THEN <<>>
    ELSE SubSeq(d, CHOOSE i \in 1..Len(d) : d[i] # "0" /\ \A j \in 1..(i - 1) : d[j] = "0",
                Len(d))

\* a <= b for two digit strings of one length
DigitsLeq(a, b) ==
    \/ a = b
    \/ \E i \in 1..Len(a) :
          /\ DigitOf(a[i]) < DigitOf(b[i])
          /\ \A j \in 1..(i - 1) : a[j] = b[j]

\* the sum of sgn * digit * 10^place over the digits from i on
RECURSIVE PlaceSum(_, _, _)
PlaceSum(d, i, sgn) ==
    IF i > Len(d) THEN 0
    ELSE sgn * DigitOf(d[i]) * Pow10(Len(d) - i) + PlaceSum(d, i + 1, sgn)

\* Some(n) when s is an optional sign and at least one decimal digit, and the
\* integer n it denotes lies between -2^31 and 2^31 - 1; None otherwise
IntegerOf(s) ==
    LET d == Unsigned(s)
        z == Significant(d)
        neg == s # <<>> /\ s[1] = "-"
        limit == IF neg THEN <<"2","1","4","7","4","8","3","6","4","8">>
                 ELSE <<"2","1","4","7","4","8","3","6","4","7">>
    IN IF d = <<>> \/ \E i \in 1..Len(d) : ~IsDigit(d[i]) THEN None
       ELSE IF Len(z) > 10 \/ (Len(z) = 10 /\ ~DigitsLeq(z, limit)) THEN None
       ELSE Some(PlaceSum(z, 1, IF neg THEN -1 ELSE 1))

\* a numeric cell that decodes: readable, and null, empty or an integer
NumericCellDecodes(cell) ==
    \/ cell.tag = "Null"
    \/ cell.tag = "Some" /\ (cell.v = <<>> \/ IntegerOf(cell.v) # None)

\* every field of the row decodes
RowDecodes(row) ==
    /\ \A f \in {"table_schema", "table_name", "column_name", "data_type", "is_nullable"} :
          row[f].tag # "Err"
    /\ \A f \in {"character_maximum_length", "numeric_precision", "numeric_scale"} :
          NumericCellDecodes(row[f])

\* the column query of step i of main returned rows one of which does not decode
UndecodableAnswer(i) ==
    /\ IsQuery(events[i])
    /\ events[i].answer.ok
    /\ \E k \in 1..Len(events[i].answer.rows) : ~RowDecodes(events[i].answer.rows[k])

\* C14: a column query whose rows include one that does not decode fails
\* with a ColumnError that carries no table; nothing is handed to the write
\* step, no write is started or made for that database, and its file is not
\* created by it.
C14_DecodeFailureGivesNoPartialResult ==
    \A i \in 1..Len(events) :
       UndecodableAnswer(i) =>
          /\ ~events[i].ok
          /\ events[i].error[1].kind = "ColumnError"
          /\ DOMAIN events[i].error[1] = {"kind", "column", "message"}
          /\ i = Len(events) => tablesRet = None
          /\ \A j \in 1..Len(events) :
                ~(IsWrite(events[j]) /\ events[j].idx = events[i].idx)
          /\ \A k \in 1..Len(trace) :
                ~(trace[k].step = "write" /\ trace[k].idx = events[i].idx)
          /\ PathOf(events[i]) \in DOMAIN files =>
                \E j \in 1..Len(events) :
                   /\ IsWrite(events[j]) /\ events[j].ok
                   /\ events[j].idx # events[i].idx
                   /\ PathOf(events[j]) = PathOf(events[i])

\* the third row of the first database does not decode after two tables were
\* begun; the run goes on and writes the second database only
C14_Witness ==
    /\ skip /\ MainEnded /\ dbList # None /\ Len(dbList[1]) = 2
    /\ Len(events) = 3
    /\ UndecodableAnswer(1) /\ Len(events[1].answer.rows) = 3
    /\ RowDecodes(events[1].answer.rows[1]) /\ RowDecodes(events[1].answer.rows[2])
    /\ RowKey(events[1].answer.rows[1]) # RowKey(events[1].answer.rows[2])
    /\ ~events[1].ok
    /\ IsWrite(events[3]) /\ events[3].ok /\ events[3].idx = 2
    /\ events[1].db # events[3].db
    /\ DOMAIN files = {PathOf(events[3])}

DecodedCell == i32Row[i32Column]

\* C15: get_i32_from_row returns absent for a null or an empty value,
\* present(n) for a non-empty text that denotes the integer n of the i32
\* range, and a ColumnError naming the column for every other non-empty text
\* and for a cell that cannot be read; it returns nothing else.
C15_OptionalNumberDecodesThreeWays ==
    i32Ret # None =>
       LET cell == DecodedCell
           r == i32Ret[1]
       IN /\ \/ r = Ok(None)
             \/ /\ r.ok /\ Len(r.v) = 1
                /\ r.v[1] \in Int /\ I32Min <= r.v[1] /\ r.v[1] <= I32Max
             \/ ~r.ok /\ r.e.kind = "ColumnError" /\ r.e.column = i32Column
          /\ (cell.tag = "Null" \/ (cell.tag = "Some" /\ cell.v = <<>>)) => r = Ok(None)
          /\ (cell.tag = "Some" /\ cell.v # <<>> /\ IntegerOf(cell.v) # None)
                => r = Ok(IntegerOf(cell.v))
          /\ (cell.tag = "Some" /\ cell.v # <<>> /\ IntegerOf(cell.v) = None)
                => ~r.ok /\ r.e.kind = "ColumnError" /\ r.e.column = i32Column

\* a non-empty text that is no integer: a ColumnError naming the column
C15_Witness ==
    /\ i32Ret # None /\ i32Column = "numeric_precision"
    /\ DecodedCell = CellSome(<<"1", "x">>)
    /\ ~i32Ret[1].ok /\ i32Ret[1].e.column = "numeric_precision"

\* "-9" is present(-9), the empty text is absent, 2^31 is a ColumnError
C15_WitnessPresent ==
    i32Ret # None /\ DecodedCell = CellSome(<<"-", "9">>) /\ i32Ret[1] = Ok(Some(-9))
C15_WitnessAbsent ==
    i32Ret # None /\ DecodedCell = CellSome(<<>>) /\ i32Ret[1] = Ok(None)
C15_WitnessOverflow ==
    /\ i32Ret # None /\ ~i32Ret[1].ok
    /\ DecodedCell = CellSome(<<"2","1","4","7","4","8","3","6","4","8">>)

-----------------------------------------------------------------------------
(* The order of the steps of main *)

StartsOf(step, i) ==
    {k \in 1..Len(trace) : trace[k].at = "start" /\ trace[k].step = step /\ trace[k].idx = i}
EndsOf(step, i) ==
    {k \in 1..Len(trace) : trace[k].at = "end" /\ trace[k].step = step /\ trace[k].idx = i}
InProgress ==
    {k \in 1..Len(trace) :
        /\ trace[k].at = "start"
        /\ ~\E e \in (k + 1)..Len(trace) :
               /\ trace[e].at = "end"
               /\ trace[e].step = trace[k].step /\ trace[e].idx = trace[k].idx}

\* C16: at most one query or write is in progress at any time: a step that
\* has started is the last thing that happened until it completes; and the
\* query of a database after the first starts only after the query of the
\* database before it has completed and, when that query succeeded, the write
\* of that database has completed too, successfully or not.
C16_StrictlySequential ==
    /\ Cardinality(InProgress) <= 1
    /\ \A k \in 1..Len(trace) :
          IF trace[k].at = "start"
          THEN k < Len(trace) =>
                  /\ trace[k + 1].at = "end"
                  /\ trace[k + 1].step = trace[k].step /\ trace[k + 1].idx = trace[k].idx
          ELSE /\ k > 1 /\ trace[k - 1].at = "start"
               /\ trace[k - 1].step = trace[k].step /\ trace[k - 1].idx = trace[k].idx
    /\ \A k \in 1..Len(trace) :
          (trace[k].at = "start" /\ trace[k].step = "query" /\ trace[k].idx > 1) =>
             \E q \in EndsOf("query", trace[k].idx - 1) :
                /\ q < k
                /\ trace[q].ok =>
                      \E w \in EndsOf("write", trace[k].idx - 1) : q < w /\ w < k

\* the query of the second database is in progress; the query of the first
\* succeeded and its write failed
C16_Witness ==
    /\ mpc = "querying" /\ idx = 2 /\ Len(trace) = 5
    /\ InProgress = {5} /\ trace[5].step = "query"
    /\ trace[2].ok /\ trace[4].step = "write" /\ ~trace[4].ok

IsColumnQuery(st) == st.kind = "SELECT COLUMNS"

C17_WitnessWrite ==
    /\ retries = DefaultRetries /\ ~skip /\ MainEnded
    /\ Len(events) = 2 /\ IsWrite(events[2]) /\ ~events[2].ok
    /\ Cardinality(StartsOf("write", 1)) = 1

-----------------------------------------------------------------------------
(* The handshake of main *)

\* the rows of an answer can all be read at the field name
NamesReadable(q) == \A i \in 1..Len(q.rows) : q.rows[i].name.tag # "Err"

\* the first step of the handshake that the answers e make fail, read off the
\* answers alone
FailsAt(e) ==
    CASE ~e.clientOk -> "create client"
      [] ~e.sessionOk -> "create session"
      [] ~e.wh.ok \/ ~NamesReadable(e.wh) -> "list warehouses"
      [] ~e.useWh.ok -> "use warehouse"
      [] ~e.useRole.ok -> "use role"
      [] OTHER -> "none"

\* the statements a handshake sends when it fails at a step
SentUpTo(step) ==
    CASE step \in {"create client", "create session"} -> 0
      [] step = "list warehouses" -> 1
      [] step = "use warehouse" -> 2
      [] OTHER -> 3

\* the run is over with a non-zero status, and no database was touched
EndedBeforeDatabases ==
    /\ mpc = "done" /\ exit # None /\ exit[1].code # 0
    /\ trace = <<>> /\ events = <<>> /\ files = <<>>
    /\ \A k \in 1..Len(stmts) : ~IsColumnQuery(stmts[k])

\* C18: one session is created, before any statement; the statements are
\* SHOW WAREHOUSES, USE WAREHOUSE, USE ROLE and then, only then, the listing
\* of the databases and the column queries; no step of the loop starts before
\* connect() and the resolution of the list have succeeded; and when a step
\* of the handshake or the resolution fails, with or without
\* skip-failed-tables, nothing is sent after the failing statement and the
\* run is over with a non-zero status, no column query sent, no file written.
C18_HandshakeOnceInOrderAndFatal ==
    mpc # "idle" =>
       /\ created <= 1
       /\ stmts # <<>> => (created = 1 /\ session # None)
       /\ \A k \in 1..Len(stmts) :
             stmts[k].kind = CASE k = 1 -> "SHOW WAREHOUSES"
                               [] k = 2 -> "USE WAREHOUSE"
                               [] k = 3 -> "USE ROLE"
                               [] k = 4 /\ dbArg = None -> "SHOW DATABASES"
                               [] OTHER -> "SELECT COLUMNS"
       /\ (mpc = "connect") = (setup = <<>>)
       /\ (dbList # None \/ trace # <<>>) =>
             /\ Len(setup) = 2
             /\ setup[1].step = "connect" /\ setup[1].ok
             /\ setup[2].step = "resolve" /\ setup[2].ok
             /\ Len(stmts) >= 3
       /\ Len(setup) >= 1 =>
             LET at == FailsAt(setup[1].answer[1])
             IN IF at = "none"
                THEN setup[1].ok /\ Len(stmts) >= 3
                ELSE /\ ~setup[1].ok /\ Len(setup) = 1
                     /\ Len(stmts) = SentUpTo(at)
                     /\ SentUpTo(at) = 0 => created = 0
                     /\ EndedBeforeDatabases
       /\ Len(setup) >= 2 =>
             LET d == setup[2].answer
             IN IF d # None /\ (~d[1].ok \/ ~NamesReadable(d[1]))
                THEN /\ ~setup[2].ok /\ Len(stmts) = 4 /\ dbList = None
                     /\ EndedBeforeDatabases
                ELSE setup[2].ok /\ dbList # None

\* with skip-failed-tables and a database to do, USE ROLE fails: exit 1
C18_Witness ==
    /\ skip /\ dbArg # None /\ Len(dbArg[1]) >= 1
    /\ Len(setup) = 1 /\ FailsAt(setup[1].answer[1]) = "use role"
    /\ Len(stmts) = 3 /\ mpc = "done" /\ exit[1].code = 1
    /\ trace = <<>> /\ files = <<>>

\* the listing of the databases fails after the handshake
C18_WitnessResolve ==
    /\ skip /\ Len(setup) = 2 /\ ~setup[2].ok /\ mpc = "done" /\ Len(stmts) = 4

\* the handshake, the listing, and then the first column query
C18_WitnessOrder ==
    /\ dbArg = None /\ Len(stmts) = 5 /\ stmts[5].kind = "SELECT COLUMNS"
    /\ Len(trace) = 2

-----------------------------------------------------------------------------
(* The runs of the aggregator's input *)

\* the positions where a run of equal keys begins
RunStarts(ks) == {i \in 1..Len(ks) : i = 1 \/ ks[i] # ks[i - 1]}
\* the position where the n-th run begins
NthRunStart(ks, n) ==
    CHOOSE i \in RunStarts(ks) : Cardinality({j \in RunStarts(ks) : j <= i}) = n
\* the length of the run that begins at i
RunLength(ks, i) ==
    Cardinality({j \in i..Len(ks) : \A k \in i..j : ks[k] = ks[i]})

\* C19: whatever the order of the rows, a call whose rows all decode
\* succeeds; a successful call returns one table per run of equal adjacent
\* keys, in the order of the runs, with the columns of that run, so that no
\* two adjacent tables have the same key and a key whose rows are not
\* contiguous is returned as many times as it has runs.
C19_OneTablePerContiguousRun ==
    AggReturned =>
       /\ (\A i \in 1..Len(rows) : RowDecodes(rows[i])) => AggReturnedOk
       /\ AggReturnedOk =>
             LET ks == InputKeys
                 ts == AggTables
             IN /\ Len(ts) = Cardinality(RunStarts(ks))
                /\ \A n \in 1..Len(ts) :
                      /\ TableKey(ts[n]) = ks[NthRunStart(ks, n)]
                      /\ Len(ts[n].columns) = RunLength(ks, NthRunStart(ks, n))
                /\ \A n \in 1..(Len(ts) - 1) : TableKey(ts[n]) # TableKey(ts[n + 1])
                /\ \A i \in 1..Len(ks) :
                      Cardinality({n \in 1..Len(ts) : TableKey(ts[n]) = ks[i]})
                         = Cardinality({j \in RunStarts(ks) : ks[j] = ks[i]})

\* rows keyed A, B, A: the call succeeds and A is returned twice
C19_Witness ==
    /\ AggReturnedOk /\ Len(rows) = 3
    /\ ~Contiguous(InputKeys)
    /\ Len(AggTables) = 3
    /\ TableKey(AggTables[1]) = TableKey(AggTables[3])
    /\ TableKey(AggTables[1]) # TableKey(AggTables[2])

=============================================================================
